---- MODULE Spec2Model ----
(***************************************************************************)
(* chp: a small build tool for C++ projects (src/src/main.rs).             *)
(*                                                                         *)
(* The state is the file system the tool sees, the arguments of one        *)
(* invocation, the position of that invocation in its handler, and what    *)
(* it has spawned and printed so far.  Paths are sequences of names from   *)
(* the file-system root <<>>; a name is a record of its stem and its       *)
(* extension, so that Path::extension is computed and not looked up.       *)
(***************************************************************************)
EXTENDS Integers, Sequences, FiniteSets, TLC

VARIABLES
    dirs,        \* the directories that exist (absolute paths)
    files,       \* the regular files that exist (absolute paths)
    unlistable,  \* directories on which read_dir fails
    badEntries,  \* entries whose DirEntry comes back as Err while iterating
    revOrder,    \* the order in which read_dir yields entries
    config,      \* content of the chp.toml files
    cwd,         \* std::env::current_dir of the process
    cmd,         \* the parsed Command (Init, New, Run, Build)
    release,     \* --release
    passArgs,    \* Run { args }
    newName,     \* New { name }
    pc,          \* position of the invocation
    result,      \* what main returns
    log,         \* stages executed so far, in order
    flags,       \* build: the selected profile (`args`)
    dirsOpt,     \* build: compile_cpp_in_dirs of the loaded Config
    sources,     \* build: what find_cpp_files_in_dirs returned
    compiler,    \* the compiler child process
    binary,      \* the produced binary's child process
    stdout,      \* what the tool wrote to its standard output
    stderr,      \* what the tool wrote to its standard error
    target,      \* scaffold: the resolved project directory
    fs0,         \* scaffold: the file system when the command started
    git,         \* the git child process
    ret          \* value returned by a function called on its own

fsVars == <<dirs, files, unlistable, badEntries, revOrder, config, cwd>>
argVars == <<cmd, release, passArgs, newName>>
buildVars == <<flags, dirsOpt, sources, compiler, binary>>
ioVars == <<stdout, stderr>>
scaffoldVars == <<target, fs0, git>>
vars == <<fsVars, argVars, pc, result, log, buildVars, ioVars, scaffoldVars, ret>>

----------------------------------------------------------------------------
(* Bounds of the model.                                                    *)

\* at most this many listing faults (unlistable directories, bad entries)
MaxFaults == 1
\* at most this many pass-through arguments of `run`
MaxPassArgs == 1

----------------------------------------------------------------------------
(* Names and paths.                                                        *)

Nm(s, e) == [stem |-> s, ext |-> e]

ChpToml == Nm("chp", "toml")
P == Nm("p", "")
SRC == Nm("src", "")
SUB == Nm("sub", "")
LIB == Nm("lib", "")
BUILD == Nm("build", "")
DEBUG == Nm("debug", "")
RELEASE == Nm("release", "")
DOTGIT == Nm("", "git")
MAINCPP == Nm("main", "cpp")
UTILH == Nm("util", "h")
GENCPP == Nm("gen", "cpp")
DEEPCPP == Nm("deep", "cpp")
EXTRACPP == Nm("extra", "cpp")
FCPP == Nm("f", "cpp")
OLD == Nm("old", "txt")
DEMO == Nm("demo", "")
APP == Nm("app", "")

\* every name of the model, in the order read_dir yields them when ~revOrder
NameOrder ==
    << ChpToml, DOTGIT, APP, BUILD, DEBUG, DEMO, DEEPCPP, EXTRACPP, FCPP, GENCPP,
       LIB, MAINCPP, OLD, P, RELEASE, SRC, SUB, UTILH >>

SeqToSet(q) == {q[i] : i \in 1..Len(q)}
Last(p) == p[Len(p)]
Parent(p) == SubSeq(p, 1, Len(p) - 1)
IsPrefix(r, p) == Len(r) <= Len(p) /\ SubSeq(p, 1, Len(r)) = r

\* Path::ancestors: the path itself, then each parent up to the root
AncestorsFarthestFirst(p) ==
    [i \in 1..(Len(p) + 1) |-> SubSeq(p, 1, i - 1)]
RECURSIVE Ancestors(_)
Ancestors(p) ==
    IF p = <<>> THEN << <<>> >> ELSE <<p>> \o Ancestors(Parent(p))

\* Path::extension: none for a name without a dot or with only a leading dot
Extension(p) ==
    IF p = <<>> \/ Last(p).stem = "" THEN "" ELSE Last(p).ext

\* Path::strip_prefix
StripPrefix(p, r) == SubSeq(p, Len(r) + 1, Len(p))

Ok(v) == [ok |-> TRUE, val |-> v, err |-> "none"]
Err(k, at) == [ok |-> FALSE, val |-> at, err |-> k]

----------------------------------------------------------------------------
(* The file system as the tool reads it.                                   *)

Exists(p) == p \in dirs \/ p \in files

\* std::fs::read_dir(d): Err when d is no directory or cannot be opened
CanList(d) == d \in dirs /\ d \notin unlistable

\* the entries read_dir(d) yields, in the file system's order
Entries(d) ==
    LET s == SelectSeq(NameOrder, LAMBDA n : Exists(Append(d, n)))
    IN  [i \in 1..Len(s) |->
            Append(d, IF revOrder THEN s[Len(s) + 1 - i] ELSE s[i])]

\* find_root's closure: a failed entry counts as "not chp.toml"
ChpExists(path) ==
    \E i \in 1..Len(Entries(path)) :
        /\ Entries(path)[i] \notin badEntries
        /\ Last(Entries(path)[i]) = ChpToml

RECURSIVE FindRootIn(_)
FindRootIn(anc) ==
    IF anc = <<>> THEN Err("RootNotFound", <<>>)
    ELSE LET path == Head(anc)
         IN  IF ~CanList(path) THEN Err("DirectoryReadError", path)
             ELSE IF ChpExists(path) THEN Ok(path)
             ELSE FindRootIn(Tail(anc))

find_root == FindRootIn(Ancestors(cwd))

\* read_config: the root's chp.toml, read as text and parsed into a Config
read_config ==
    LET root == find_root
    IN  IF ~root.ok THEN root
        ELSE LET chp_path == Append(root.val, ChpToml)
             IN  IF chp_path \notin files \/ ~config.readable
                     THEN Err("ConfigReadError", chp_path)
                 ELSE IF ~config.wellformed
                     THEN Err("ConfigParseError", chp_path)
                 ELSE Ok(config.value)

RECURSIVE find_cpp_files_in_dirs_helper(_, _, _)
RECURSIVE HelperLoop(_, _, _)
\* the body of the helper's `for entry in read_dir(dir)?`
HelperLoop(cpp_files, entries, root) ==
    IF entries = <<>> THEN Ok(cpp_files)
    ELSE LET path == Head(entries)
         IN  IF path \in badEntries THEN Err("DirectoryWalkError", path)
             ELSE LET sub == IF path \in dirs
                                 THEN find_cpp_files_in_dirs_helper(cpp_files, path, root)
                                 ELSE Ok(cpp_files)
                  IN  IF ~sub.ok THEN sub
                      ELSE HelperLoop(
                               IF Extension(path) = "cpp"
                                   THEN Append(sub.val, StripPrefix(path, root))
                                   ELSE sub.val,
                               Tail(entries), root)

find_cpp_files_in_dirs_helper(cpp_files, dir, root) ==
    IF ~CanList(dir) THEN Err("DirectoryWalkError", dir)
    ELSE HelperLoop(cpp_files, Entries(dir), root)

None == [some |-> FALSE, val |-> <<>>]
Some(v) == [some |-> TRUE, val |-> v]
UnwrapOrDefault(opt) == IF opt.some THEN opt.val ELSE <<>>

\* the `for directory in maybe_dirs.unwrap_or_default()` of find_cpp_files_in_dirs
RECURSIVE DirsLoop(_, _, _)
DirsLoop(cpp_files, directories, root) ==
    IF directories = <<>> THEN Ok(cpp_files)
    ELSE LET src_path == root \o Head(directories)
             r == find_cpp_files_in_dirs_helper(cpp_files, src_path, root)
         IN  IF ~r.ok THEN r ELSE DirsLoop(r.val, Tail(directories), root)

find_cpp_files_in_dirs(maybe_dirs) ==
    LET root == find_root
    IN  IF ~root.ok THEN root
        ELSE DirsLoop(<<>>, UnwrapOrDefault(maybe_dirs), root.val)

----------------------------------------------------------------------------
(* File systems the specifications start from.                             *)

BoundedSubsets(S, k) == {T \in SUBSET S : Cardinality(T) <= k}

Chain3 == { <<>>, <<P>>, <<P, SRC>> }
Chain4 == Chain3 \cup { <<P, SRC, SUB>> }

\* no chp.toml has content yet
NoConfig ==
    [ readable |-> FALSE, wellformed |-> FALSE,
      value |-> [ name |-> "", command |-> "", compile_cpp_in_dirs |-> None,
                  profiles |-> [debug |-> <<>>, release |-> <<>>] ] ]

Idle ==
    /\ cmd = "none" /\ release = FALSE /\ passArgs = <<>> /\ newName = "none"
    /\ pc = "main" /\ result = "none" /\ log = <<>>
    /\ flags = <<>> /\ dirsOpt = None /\ sources = <<>>
    /\ compiler = [state |-> "none", argv |-> <<>>, stderr |-> <<>>]
    /\ binary = [state |-> "none", path |-> <<>>, args |-> <<>>]
    /\ stdout = <<>> /\ stderr = <<>>
    /\ target = <<>> /\ fs0 = [dirs |-> {}, files |-> {}]
    /\ git = [state |-> "none", stderr |-> <<>>]
    /\ ret = Err("none", <<>>)

(* find_root on its own: a chain of four directories, any of them holding  *)
(* chp.toml, with listing faults on directories and on entries.            *)
InitRoot ==
    /\ dirs = Chain4
    /\ \E m \in SUBSET Chain4 : files = {Append(d, ChpToml) : d \in m}
    /\ \E u \in BoundedSubsets(dirs, MaxFaults) :
       \E b \in BoundedSubsets(files \cup (dirs \ { <<>> }), MaxFaults - Cardinality(u)) :
          unlistable = u /\ badEntries = b
    /\ revOrder \in BOOLEAN
    /\ config = NoConfig
    /\ cwd \in Chain4
    /\ Idle

call_find_root ==
    /\ pc = "main"
    /\ ret' = find_root
    /\ pc' = "exit"
    /\ UNCHANGED <<fsVars, argVars, result, log, buildVars, ioVars, scaffoldVars>>

NextRoot == call_find_root

(* find_cpp_files_in_dirs on its own: a project at /p whose src directory  *)
(* holds any mix of sources, headers, nested directories and a directory   *)
(* named like a source file; lib and extra.cpp lie outside src.            *)
SrcDir == <<P, SRC>>
OptionalFiles ==
    { Append(SrcDir, MAINCPP), Append(SrcDir, UTILH), <<P, EXTRACPP>> }
OptionalDirs == { Append(SrcDir, GENCPP), Append(SrcDir, SUB), <<P, LIB>> }
\* what a directory holds when it exists
Content(d) ==
    IF d = Append(SrcDir, SUB) THEN {Append(d, DEEPCPP)}
    ELSE IF d = <<P, LIB>> THEN {Append(d, FCPP)}
    ELSE {}

DirLists ==
    { None, Some(<<>>), Some(<< <<SRC>> >>), Some(<< <<SRC>>, <<LIB>> >>),
      Some(<< <<SRC, SUB>> >>), Some(<< <<LIB>>, <<SRC, SUB>> >>) }

InitDiscover ==
    /\ \E od \in SUBSET OptionalDirs, of \in SUBSET OptionalFiles :
          /\ dirs = Chain3 \cup od
          /\ files = { <<P, ChpToml>> } \cup of \cup UNION {Content(d) : d \in od}
    /\ \E u \in BoundedSubsets(dirs \ Chain3, MaxFaults) :
       \E b \in BoundedSubsets(files \ { <<P, ChpToml>> }, MaxFaults - Cardinality(u)) :
          unlistable = u /\ badEntries = b
    /\ revOrder \in BOOLEAN
    /\ config = NoConfig
    /\ cwd \in { <<P>>, SrcDir }
    /\ Idle

call_find_cpp_files_in_dirs(maybe_dirs) ==
    /\ pc = "main"
    /\ dirsOpt' = maybe_dirs
    /\ ret' = find_cpp_files_in_dirs(maybe_dirs)
    /\ pc' = "exit"
    /\ UNCHANGED <<fsVars, argVars, result, log, flags, sources, compiler, binary,
                   ioVars, scaffoldVars>>

NextDiscover == \E maybe_dirs \in DirLists : call_find_cpp_files_in_dirs(maybe_dirs)

SpecDiscover == InitDiscover /\ [][NextDiscover]_vars

SpecRoot == InitRoot /\ [][NextRoot]_vars

----------------------------------------------------------------------------
(* build and run (src/src/main.rs 143-194).                                *)

PathArg(p) == [kind |-> "path", path |-> p, text |-> ""]
StrArg(t) == [kind |-> "str", path |-> <<>>, text |-> t]
PathArgs(q) == [i \in 1..Len(q) |-> PathArg(q[i])]
StrArgs(q) == [i \in 1..Len(q) |-> StrArg(q[i])]

Ev(stage, ok) == [stage |-> stage, ok |-> ok]

DebugFlags == << "-O0", "-o", "build/debug/demo.out" >>
ReleaseFlags == << "-O2", "-DNDEBUG", "-o", "build/release/demo.out" >>
ConfigValue(maybe_dirs) ==
    [ name |-> "demo", command |-> "cc", compile_cpp_in_dirs |-> maybe_dirs,
      profiles |-> [debug |-> DebugFlags, release |-> ReleaseFlags] ]
ConfigFiles ==
    { [readable |-> FALSE, wellformed |-> FALSE, value |-> ConfigValue(None)],
      [readable |-> TRUE, wellformed |-> FALSE, value |-> ConfigValue(None)] }
    \cup { [readable |-> TRUE, wellformed |-> TRUE, value |-> ConfigValue(d)] :
             d \in { None, Some(<< <<SRC>> >>), Some(<< <<SRC>>, <<LIB>> >>) } }

PassArgs == UNION { [1..n -> {"x"}] : n \in 0..MaxPassArgs }

(* One project tree with chp.toml in any of the directories of the chain,  *)
(* the tool started in any of them.                                        *)
InitBuild ==
    /\ \E od \in SUBSET { Append(SrcDir, SUB) }, m \in SUBSET Chain3 :
          /\ dirs = Chain3 \cup od
          /\ files = {Append(d, ChpToml) : d \in m}
                         \cup UNION {Content(d) : d \in od}
                         \cup { Append(SrcDir, MAINCPP), Append(SrcDir, UTILH),
                                <<P, EXTRACPP>> }
    /\ \E u \in BoundedSubsets({ <<P>> }, MaxFaults) :
       \E b \in BoundedSubsets({ Append(SrcDir, MAINCPP) }, MaxFaults - Cardinality(u)) :
          unlistable = u /\ badEntries = b
    /\ revOrder \in BOOLEAN
    /\ config \in ConfigFiles
    /\ cwd \in Chain3
    /\ Idle

\* main: Command::Build { release } => build(release)
main_build(rel) ==
    /\ pc = "main"
    /\ cmd' = "build" /\ release' = rel
    /\ pc' = "build"
    /\ UNCHANGED <<fsVars, passArgs, newName, result, log, buildVars, ioVars,
                   scaffoldVars, ret>>

\* main: Command::Run { release, args } => run(release, args)
main_run(rel, args) ==
    /\ pc = "main"
    /\ cmd' = "run" /\ release' = rel /\ passArgs' = args
    /\ pc' = "build"
    /\ UNCHANGED <<fsVars, newName, result, log, buildVars, ioVars, scaffoldVars, ret>>

\* the stages read_config goes through
ReadConfigLog ==
    IF find_root.ok THEN << Ev("find_root", TRUE), Ev("read_config", read_config.ok) >>
    ELSE << Ev("find_root", FALSE) >>

\* build: `let args = if release { profiles.release } else { profiles.debug }`
SelectProfile(profiles, rel) ==
    IF rel THEN profiles.release ELSE profiles.debug

\* build, lines 144-157: read the configuration, select the profile
build_read_config ==
    /\ pc = "build"
    /\ log' = log \o ReadConfigLog
    /\ IF read_config.ok
          THEN /\ flags' = SelectProfile(read_config.val.profiles, release)
               /\ dirsOpt' = read_config.val.compile_cpp_in_dirs
               /\ stdout' = Append(stdout, "Building")
               /\ pc' = "discover"
               /\ UNCHANGED result
          ELSE /\ result' = read_config.err
               /\ pc' = "exit"
               /\ UNCHANGED <<flags, dirsOpt, stdout>>
    /\ UNCHANGED <<fsVars, argVars, sources, compiler, binary, stderr, scaffoldVars, ret>>

\* build_discover with the error of find_cpp_files_in_dirs dropped
build_discover_unchecked ==
    /\ pc = "discover"
    /\ LET r == find_cpp_files_in_dirs(dirsOpt)
       IN  /\ log' = log \o
                  (IF find_root.ok
                      THEN << Ev("find_root", TRUE), Ev("discover", r.ok) >>
                      ELSE << Ev("find_root", FALSE) >>)
           /\ sources' = IF r.ok THEN r.val ELSE <<>>
           /\ pc' = "spawn_compiler"
           /\ UNCHANGED result
    /\ UNCHANGED <<fsVars, argVars, flags, dirsOpt, compiler, binary, ioVars,
                   scaffoldVars, ret>>

\* build, line 160: the argument of .args(find_cpp_files_in_dirs(..)?)
build_discover ==
    /\ pc = "discover"
    /\ LET r == find_cpp_files_in_dirs(dirsOpt)
       IN  /\ log' = log \o
                  (IF find_root.ok
                      THEN << Ev("find_root", TRUE), Ev("discover", r.ok) >>
                      ELSE << Ev("find_root", FALSE) >>)
           /\ IF r.ok
                 THEN sources' = r.val /\ pc' = "spawn_compiler" /\ UNCHANGED result
                 ELSE result' = r.err /\ pc' = "exit" /\ UNCHANGED sources
    /\ UNCHANGED <<fsVars, argVars, flags, dirsOpt, compiler, binary, ioVars,
                   scaffoldVars, ret>>

\* the argument vector of the compiler: .args(sources).args(args)
CompilerArgvFlagsFirst(srcs, args) ==
    StrArgs(args) \o PathArgs(srcs)
CompilerArgv(srcs, args) ==
    PathArgs(srcs) \o StrArgs(args)

\* build, lines 159-162: Command::output spawns the compiler, or fails to
build_spawn(spawned) ==
    /\ pc = "spawn_compiler"
    /\ IF spawned
          THEN /\ compiler' = [state |-> "running",
                               argv |-> CompilerArgv(sources, flags),
                               stderr |-> <<>>]
               /\ log' = Append(log, Ev("spawn_compiler", TRUE))
               /\ pc' = "wait_compiler"
               /\ UNCHANGED result
          ELSE /\ log' = Append(log, Ev("spawn_compiler", FALSE))
               /\ result' = "ProcessSpawnError"
               /\ pc' = "exit"
               /\ UNCHANGED compiler
    /\ UNCHANGED <<fsVars, argVars, flags, dirsOpt, sources, binary, ioVars,
                   scaffoldVars, ret>>

\* build, lines 164-169: what build returns once the compiler has run
BuildReturnFailing(captured) == IF captured # <<>> THEN "CompileError" ELSE "Ok"
BuildReturn(captured) == "Ok"

\* build, lines 162-169: the compiler terminates; its standard error, when
\* not empty, is written to the tool's; build returns, and run goes on
build_wait(captured) ==
    /\ pc = "wait_compiler"
    /\ compiler' = [compiler EXCEPT !.state = "exited", !.stderr = captured]
    /\ log' = Append(log, Ev("compiler_exit", TRUE))
    /\ stderr' = stderr \o captured
    /\ IF cmd = "run" /\ BuildReturn(captured) = "Ok"
          THEN pc' = "run" /\ UNCHANGED result
          ELSE pc' = "exit" /\ result' = BuildReturn(captured)
    /\ UNCHANGED <<fsVars, argVars, flags, dirsOpt, sources, binary, stdout,
                   scaffoldVars, ret>>

\* run, lines 175-184: the path of the produced binary
BinaryPath(name) ==
    cwd \o << BUILD, IF release THEN RELEASE ELSE DEBUG, Nm(name, "exe") >>

\* run, lines 175-186: read the configuration again, compute the path
run_read_config ==
    /\ pc = "run"
    /\ log' = log \o ReadConfigLog
    /\ IF read_config.ok
          THEN /\ binary' = [binary EXCEPT !.path = BinaryPath(read_config.val.name)]
               /\ stdout' = Append(stdout, "Running")
               /\ pc' = "spawn_binary"
               /\ UNCHANGED result
          ELSE /\ result' = read_config.err
               /\ pc' = "exit"
               /\ UNCHANGED <<binary, stdout>>
    /\ UNCHANGED <<fsVars, argVars, flags, dirsOpt, sources, compiler, stderr,
                   scaffoldVars, ret>>

\* run, line 188: Command::output spawns the binary, or fails to
run_spawn(spawned) ==
    /\ pc = "spawn_binary"
    /\ IF spawned
          THEN /\ binary' = [binary EXCEPT !.state = "running",
                                           !.args = StrArgs(passArgs)]
               /\ log' = Append(log, Ev("spawn_binary", TRUE))
               /\ pc' = "wait_binary"
               /\ UNCHANGED result
          ELSE /\ log' = Append(log, Ev("spawn_binary", FALSE))
               /\ result' = "ProcessSpawnError"
               /\ pc' = "exit"
               /\ UNCHANGED binary
    /\ UNCHANGED <<fsVars, argVars, flags, dirsOpt, sources, compiler, ioVars,
                   scaffoldVars, ret>>

\* run, lines 188-193: the binary terminates and its output is forwarded
run_wait(out, err) ==
    /\ pc = "wait_binary"
    /\ binary' = [binary EXCEPT !.state = "exited"]
    /\ log' = Append(log, Ev("binary_exit", TRUE))
    /\ stdout' = stdout \o out
    /\ stderr' = stderr \o err
    /\ result' = "Ok"
    /\ pc' = "exit"
    /\ UNCHANGED <<fsVars, argVars, flags, dirsOpt, sources, compiler, scaffoldVars, ret>>

CompilerStderr == { <<>>, << "warning: unused variable" >> }
BinaryStdout == { <<>>, << "Hello, World" >> }
BinaryStderr == { <<>>, << "oops" >> }

Next ==
    \/ \E rel \in BOOLEAN : main_build(rel)
    \/ \E rel \in BOOLEAN, args \in PassArgs : main_run(rel, args)
    \/ build_read_config
    \/ build_discover
    \/ \E spawned \in BOOLEAN : build_spawn(spawned)
    \/ \E captured \in CompilerStderr : build_wait(captured)
    \/ run_read_config
    \/ \E spawned \in BOOLEAN : run_spawn(spawned)
    \/ \E out \in BinaryStdout, err \in BinaryStderr : run_wait(out, err)

Spec == InitBuild /\ [][Next]_vars

----------------------------------------------------------------------------
(* init and new (src/src/main.rs 196-272).                                 *)

ProjectNames == { DEMO, APP }

(* The tool is started in /p; /p may hold a file, demo may be absent, an    *)
(* empty directory or a directory holding a file, and app may be absent,   *)
(* an empty directory or a regular file.                                   *)
InitScaffold ==
    /\ \E old \in BOOLEAN, demo \in {"absent", "empty", "full"},
          app \in {"absent", "empty", "file"} :
          /\ dirs = { <<>>, <<P>> }
                        \cup (IF demo # "absent" THEN { <<P, DEMO>> } ELSE {})
                        \cup (IF app = "empty" THEN { <<P, APP>> } ELSE {})
          /\ files = (IF old THEN { <<P, OLD>> } ELSE {})
                         \cup (IF demo = "full" THEN { <<P, DEMO, OLD>> } ELSE {})
                         \cup (IF app = "file" THEN { <<P, APP>> } ELSE {})
    /\ unlistable = {} /\ badEntries = {}
    /\ revOrder \in BOOLEAN
    /\ config = NoConfig
    /\ cwd = <<P>>
    /\ Idle

\* main: Command::Init => init_project(None)
main_init ==
    /\ pc = "main"
    /\ cmd' = "init"
    /\ pc' = "init_project"
    /\ UNCHANGED <<fsVars, release, passArgs, newName, result, log, buildVars, ioVars,
                   scaffoldVars, ret>>

\* main: Command::New { name } => init_project(Some(name))
main_new(name) ==
    /\ pc = "main"
    /\ cmd' = "new" /\ newName' = name
    /\ pc' = "init_project"
    /\ UNCHANGED <<fsVars, release, passArgs, result, log, buildVars, ioVars,
                   scaffoldVars, ret>>

\* init_project, lines 204-210: read_dir succeeds and yields a first item
HasEntriesInverted(path) == CanList(path) /\ Len(Entries(path)) = 0
HasEntries(path) == CanList(path) /\ Len(Entries(path)) > 0

\* init_project: resolve the target and refuse a directory that has entries
init_project ==
    /\ pc = "init_project"
    /\ LET path == IF cmd = "new" THEN Append(cwd, newName) ELSE cwd
       IN  /\ target' = path
           /\ fs0' = [dirs |-> dirs, files |-> files]
           /\ stdout' = Append(stdout, "path")
           /\ IF HasEntries(path)
                 THEN result' = "NonEmptyDirectory" /\ pc' = "exit"
                 ELSE pc' = "create_dir" /\ UNCHANGED result
    /\ UNCHANGED <<fsVars, argVars, log, buildVars, stderr, git, ret>>

\* write_project, line 217: create_dir_all(&path)?
write_project_create_dir(ok) ==
    /\ pc = "create_dir"
    /\ target \in files => ~ok
    /\ IF ok
          THEN dirs' = dirs \cup {target} /\ pc' = "git_init" /\ UNCHANGED result
          ELSE result' = "IoError" /\ pc' = "exit" /\ UNCHANGED dirs
    /\ log' = Append(log, Ev("create_dir", ok))
    /\ UNCHANGED <<files, unlistable, badEntries, revOrder, config, cwd, argVars,
                   buildVars, ioVars, scaffoldVars, ret>>

\* what `git init` can do: not start at all, or run, create .git or not,
\* and write to standard error or not
GitOutcomes ==
    { [spawned |-> FALSE, created |-> FALSE, captured |-> <<>>] }
    \cup [ spawned : {TRUE}, created : BOOLEAN,
           captured : { <<>>, << "hint: Using 'master' as the name" >> } ]

\* write_project, lines 226-235: the error of the git step, if any
GitFailedOnSpawnOnly(o) == ~o.spawned
GitFailed(o) == ~o.spawned \/ o.captured # <<>>

\* write_project, lines 219-235: run `git init` in the project directory
write_project_git_init(o) ==
    /\ pc = "git_init"
    /\ git' = [state |-> IF o.spawned THEN "exited" ELSE "failed", stderr |-> o.captured]
    /\ dirs' = IF o.created THEN dirs \cup {Append(target, DOTGIT)} ELSE dirs
    /\ stderr' = stderr \o o.captured
    /\ log' = Append(log, Ev("git_init", ~GitFailed(o)))
    /\ IF GitFailed(o)
          THEN result' = "GitInitError" /\ pc' = "exit"
          ELSE pc' = "write_config" /\ UNCHANGED result
    /\ UNCHANGED <<files, unlistable, badEntries, revOrder, config, cwd, argVars,
                   buildVars, stdout, target, fs0, ret>>

\* CONFIG_FILE_CONTENT with the project name in place of {}
RenderedConfig(project_name) ==
    [ name |-> project_name, command |-> "g++",
      compile_cpp_in_dirs |-> Some(<< <<SRC>> >>),
      profiles |->
        [ debug |->
            << "-fdiagnostics-color=always", "-std=c++20", "-Wall", "-Wextra",
               "-pedantic", "-Weffc++", "-Wsuggest-attribute=const", "-fconcepts",
               "-Og", "-g", "-o", "build/debug/" \o project_name \o ".exe" >>,
          release |->
            << "-fdiagnostics-color=always", "-std=c++20", "-Wall", "-Wextra",
               "-pedantic", "-Weffc++", "-Wsuggest-attribute=const", "-fconcepts",
               "-O2", "-o", "build/release/" \o project_name \o ".exe" >> ] ]

\* write_project, lines 237-243: create chp.toml and write the template
write_project_config(outcome) ==
    /\ pc = "write_config"
    /\ log' = Append(log, Ev("write_config", outcome = "ok"))
    /\ files' = IF outcome = "open_failed" THEN files
                ELSE files \cup {Append(target, ChpToml)}
    /\ config' = IF outcome = "open_failed" THEN config
                 ELSE [ readable |-> TRUE, wellformed |-> outcome = "ok",
                        value |-> RenderedConfig(Last(target).stem) ]
    /\ IF outcome = "ok"
          THEN pc' = "write_main" /\ UNCHANGED result
          ELSE result' = "IoError" /\ pc' = "exit"
    /\ UNCHANGED <<dirs, unlistable, badEntries, revOrder, cwd, argVars, buildVars,
                   ioVars, scaffoldVars, ret>>

\* write_project, lines 245-256: create src and src/main.cpp
write_project_main(outcome) ==
    /\ pc = "write_main"
    /\ log' = Append(log, Ev("write_main", outcome = "ok"))
    /\ dirs' = IF outcome = "mkdir_failed" THEN dirs
               ELSE dirs \cup {Append(target, SRC)}
    /\ files' = IF outcome \in {"mkdir_failed", "open_failed"} THEN files
                ELSE files \cup {target \o <<SRC, MAINCPP>>}
    /\ IF outcome = "ok"
          THEN pc' = "build_dirs" /\ UNCHANGED result
          ELSE result' = "IoError" /\ pc' = "exit"
    /\ UNCHANGED <<unlistable, badEntries, revOrder, config, cwd, argVars, buildVars,
                   ioVars, scaffoldVars, ret>>

\* write_project, lines 258-271: create build/debug and build/release
write_project_build_dirs(outcome) ==
    /\ pc = "build_dirs"
    /\ log' = Append(log, Ev("build_dirs", outcome = "ok"))
    /\ dirs' = dirs \cup
          (IF outcome = "debug_failed" THEN {}
           ELSE { Append(target, BUILD), target \o <<BUILD, DEBUG>> })
          \cup (IF outcome = "ok" THEN { target \o <<BUILD, RELEASE>> } ELSE {})
    /\ result' = IF outcome = "ok" THEN "Ok" ELSE "IoError"
    /\ pc' = "exit"
    /\ UNCHANGED <<files, unlistable, badEntries, revOrder, config, cwd, argVars,
                   buildVars, ioVars, scaffoldVars, ret>>

NextScaffold ==
    \/ main_init
    \/ \E name \in ProjectNames : main_new(name)
    \/ init_project
    \/ \E ok \in BOOLEAN : write_project_create_dir(ok)
    \/ \E o \in GitOutcomes : write_project_git_init(o)
    \/ \E outcome \in {"ok", "open_failed", "write_failed"} : write_project_config(outcome)
    \/ \E outcome \in {"ok", "mkdir_failed", "open_failed"} : write_project_main(outcome)
    \/ \E outcome \in {"ok", "debug_failed", "release_failed"} :
          write_project_build_dirs(outcome)

SpecScaffold == InitScaffold /\ [][NextScaffold]_vars

----------------------------------------------------------------------------
(* Root location.                                                          *)

AncestorSet == {Ancestors(cwd)[i] : i \in 1..Len(Ancestors(cwd))}
MarkerDirs == {d \in AncestorSet : Append(d, ChpToml) \in files}
NearestMarkerDir == CHOOSE d \in MarkerDirs : \A e \in MarkerDirs : Len(e) <= Len(d)

\* the ancestors the walk has to list: from cwd up to the nearest marker
WalkedDirs ==
    IF MarkerDirs = {} THEN AncestorSet
    ELSE {d \in AncestorSet : Len(d) >= Len(NearestMarkerDir)}
ListsCleanly(d) ==
    d \notin unlistable /\ \A e \in badEntries : Parent(e) # d

\* C2: with the ancestor chain listing without I/O failure, find_root
\* returns the nearest ancestor of the invocation directory (itself
\* included) that holds an entry named chp.toml, and fails with
\* RootNotFound when no ancestor holds one.
C2_NearestRoot ==
    (pc = "exit" /\ \A d \in WalkedDirs : ListsCleanly(d)) =>
        IF MarkerDirs = {} THEN ret = Err("RootNotFound", <<>>)
        ELSE ret = Ok(NearestMarkerDir)

C2_Witness ==
    /\ pc = "exit"
    /\ \A d \in WalkedDirs : ListsCleanly(d)
    /\ Cardinality(MarkerDirs) >= 2
    /\ ret.ok /\ ret.val # cwd /\ ret.val # <<>>

\* reading entry i of d fails before the closure has seen chp.toml
EntryFailureOccurs(d) ==
    \E i \in 1..Len(Entries(d)) :
        /\ Entries(d)[i] \in badEntries
        /\ \A j \in 1..(i - 1) :
              Entries(d)[j] \in badEntries \/ Last(Entries(d)[j]) # ChpToml
ListingFails(d) == d \in unlistable \/ EntryFailureOccurs(d)

\* the walk gets as far as d: no nearer ancestor failed or held the marker
WalkReaches(d) ==
    \A e \in AncestorSet :
        Len(e) > Len(d) => ~ListingFails(e) /\ Append(e, ChpToml) \notin files

\* C9: an I/O failure while listing a directory of the walk, on opening it
\* or on reading one of its entries, makes find_root fail with
\* DirectoryReadError at that directory.
C9_ListingFailureAborts ==
    pc = "exit" =>
        \A d \in AncestorSet :
            (WalkReaches(d) /\ ListingFails(d)) => ret = Err("DirectoryReadError", d)


----------------------------------------------------------------------------
(* The build and run pipeline.                                             *)

\* C1: in a run request whose compiler wrote to standard error, the
\* produced binary is never spawned.
C1_RunGatedOnCompilerStderr ==
    ~(compiler.stderr # <<>> /\ binary.state # "none")

SelectedFlags ==
    IF release THEN config.value.profiles.release ELSE config.value.profiles.debug
OtherFlags ==
    IF release THEN config.value.profiles.debug ELSE config.value.profiles.release

\* C4: the compiler's argument vector is the discovered source paths in
\* enumeration order followed by the selected profile's flags unchanged;
\* without source directories it is the flag list alone, and no flag that
\* only the other profile has appears in it.
C4_ArgvIsSourcesThenFlags ==
    compiler.state # "none" =>
        LET argv == compiler.argv
            found == find_cpp_files_in_dirs(config.value.compile_cpp_in_dirs).val
            n == Len(found)
        IN  /\ Len(argv) = n + Len(SelectedFlags)
            /\ \A i \in 1..n : argv[i] = PathArg(found[i])
            /\ \A j \in 1..Len(SelectedFlags) : argv[n + j] = StrArg(SelectedFlags[j])
            /\ ~config.value.compile_cpp_in_dirs.some => n = 0
            /\ \A i \in 1..Len(argv) :
                  \A t \in SeqToSet(OtherFlags) \ SeqToSet(SelectedFlags) :
                      argv[i] # StrArg(t)

C4_Witness ==
    /\ compiler.state = "running"
    /\ release
    /\ revOrder
    /\ Len(sources) >= 2
    /\ compiler.argv[Len(sources) + 1] = StrArg("-O2")

\* C6: the binary that run spawns after a build that did not stop early is
\* <root>/build/<profile>/<name>.exe, with <root> the directory find_root
\* returns.
C6_BinaryUnderRoot ==
    (binary.state # "none" /\ compiler.stderr = <<>>) =>
        binary.path = find_root.val \o
            << BUILD, IF release THEN RELEASE ELSE DEBUG, Nm(config.value.name, "exe") >>

HardFailures ==
    { "RootNotFound", "DirectoryReadError", "ConfigReadError", "ConfigParseError",
      "DirectoryWalkError", "ProcessSpawnError" }

StageRank(stage) ==
    CASE stage = "find_root" -> 1
      [] stage = "read_config" -> 2
      [] stage = "discover" -> 3
      [] stage = "spawn_compiler" -> 4
      [] stage = "compiler_exit" -> 5
      [] stage = "spawn_binary" -> 6
      [] stage = "binary_exit" -> 7

Count(stage) == Cardinality({i \in 1..Len(log) : log[i].stage = stage})
Before(stage, j) == \E i \in 1..(j - 1) : log[i] = Ev(stage, TRUE)

----------------------------------------------------------------------------
(* Source discovery.                                                       *)

\* the regular files with extension cpp under a configured directory of the
\* root, as root-relative paths
CppFilesUnder(root, directories) ==
    { StripPrefix(f, root) :
        f \in { g \in files :
                 /\ Extension(g) = "cpp"
                 /\ \E i \in 1..Len(directories) :
                       IsPrefix(root \o directories[i], Parent(g)) } }

\* C5: discovery returns one root-relative path for each regular file with
\* extension cpp under a configured directory, and nothing else.
C5_ExactlyTheCppFiles ==
    (pc = "exit" /\ ret.ok) =>
        LET expected == CppFilesUnder(find_root.val, UnwrapOrDefault(dirsOpt))
        IN  /\ SeqToSet(ret.val) = expected
            /\ Len(ret.val) = Cardinality(expected)

----------------------------------------------------------------------------
(* Scaffolding.                                                            *)

\* the target was a directory with at least one entry when the command began
TargetHadEntries ==
    /\ target \in fs0.dirs
    /\ \E p \in fs0.dirs \cup fs0.files : p # <<>> /\ Parent(p) = target

Resolved == cmd \in {"init", "new"} /\ pc \notin {"main", "init_project"}

LaterArtefacts ==
    { Append(target, ChpToml), Append(target, SRC), target \o <<SRC, MAINCPP>>,
      Append(target, BUILD), target \o <<BUILD, DEBUG>>, target \o <<BUILD, RELEASE>> }

\* C8: when git cannot be spawned or writes to standard error, the command
\* fails with GitInitError, none of the later steps happens, and the
\* target directory stays.
C8_GitFailureStops ==
    (git.state = "failed" \/ (git.state = "exited" /\ git.stderr # <<>>)) =>
        /\ pc = "exit" /\ result = "GitInitError"
        /\ target \in dirs
        /\ LaterArtefacts \cap (dirs \cup files) = {}
        /\ config = NoConfig

C8_Witness ==
    /\ git.state = "exited" /\ git.stderr # <<>>
    /\ result = "GitInitError"
    /\ target \notin fs0.dirs /\ target \in dirs

====
